---------------------------- MODULE Spec2Model ----------------------------
(***************************************************************************)
(* Model of the AXER asset container of AuroraAssetConverter:              *)
(*   src/convert.py                             AuroraAssetFile            *)
(*   src/aurora_converter/models/asset_file.py  AuroraAssetFile            *)
(*   src/AuroraDLL.py                           the texture codec wrapper  *)
(* Files are byte sequences (1-based here, 0-based in the source); u32     *)
(* fields are packed and unpacked byte by byte as struct.pack/unpack do.   *)
(***************************************************************************)
EXTENDS Integers, Sequences, FiniteSets, TLC

VARIABLES flags, screenshot_count, entries, disk, st_size, rd_flags, rd_screenshot_count,
          scan, root, report, attempts, decision, last

vars == <<flags, screenshot_count, entries, disk, st_size, rd_flags, rd_screenshot_count,
          scan, root, report, attempts, decision, last>>

\* the directory tree the scanner is run on, what scan_folder or scan_root left,
\* what extract_asset left and what should_process_asset answered: the container
\* and the single-file operations leave them alone
other_vars == <<root, report, attempts, decision>>

(***************************************************************************)
(* Constants of the container format.                                      *)
(***************************************************************************)
MAGIC == 1381516609          \* 0x52584541

VERSION == 1

HEADER_SIZE == 20

ENTRY_SIZE == 64

ALIGNMENT == 2048

\* AssetType members (convert.py)
Icon == 0

Banner == 1

Boxart == 2

Slot == 3

Background == 4

ScreenshotStart == 5

ScreenshotEnd == 24

Max == 24

AssetType == 0..Max

(***************************************************************************)
(* Bounds of the model.                                                    *)
(***************************************************************************)
\* at most this many slots are populated in one container while it is built
MaxPopulated == 3

\* at most this many slots are populated in a container that is written and read back
MaxRoundTrip == 2

\* the most folders of a tree scan_root is run on
MaxFolders == 3

(***************************************************************************)
(* Bytes, slices, struct.pack / struct.unpack.                             *)
(***************************************************************************)
Min(a, b) == IF a <= b THEN a ELSE b

Max2(a, b) == IF a >= b THEN a ELSE b

\* Python data[a:b] on a byte string (0-based, clamped to the length)
Slice(data, a, b) ==
    LET hi == Min(b, Len(data))
    IN  IF a >= hi THEN <<>> ELSE SubSeq(data, a + 1, hi)

\* b'\x00' * n, bytearray(n)
Zeros(n) == [i \in 1..n |-> 0]

\* A u32 is held as its four base-256 digits, most significant first, so that a
\* byte swap of a small number (0x80 -> 0x80000000) stays exact.
\* the u32 n, 0 <= n < 2^31
U32(n) == <<(n \div 16777216) % 256, (n \div 65536) % 256, (n \div 256) % 256, n % 256>>

\* struct.pack('<I', v): the bytes of v, least significant first
PackLE(v) == <<v[4], v[3], v[2], v[1]>>

\* struct.pack('>I', v): the bytes of v, most significant first
PackBE(v) == <<v[1], v[2], v[3], v[4]>>

\* struct.unpack('<I', b)[0], b of 4 bytes
UnpackLE(b) == <<b[4], b[3], b[2], b[1]>>

\* struct.unpack('>I', b)[0], b of 4 bytes
UnpackBE(b) == <<b[1], b[2], b[3], b[4]>>

\* _swap_uint32: struct.unpack(">I", struct.pack("<I", value))[0]
swap_uint32(value) == UnpackBE(PackLE(value))

\* a u32 used as a slice bound: every value of 2^24 or more lies past the end of
\* the files of the model, where Python clamps the slice
SliceBound(v) == IF v[1] > 0 THEN 16777216 ELSE 65536 * v[2] + 256 * v[3] + v[4]

\* bit n of the integer f
BitSet(f, n) == (f \div (2 ^ n)) % 2 = 1

\* f | (1 << n)
OrBit(f, n) == IF BitSet(f, n) THEN f ELSE f + 2 ^ n

(***************************************************************************)
(* The codec (AuroraDLL) is external: what it returns is an input.  A      *)
(* result is a failure, or a texture header and video data.                *)
(***************************************************************************)
\* a texture header of n bytes, all different, marked by tag
TexHeader(tag, n) == [i \in 1..n |-> (tag * 64 + i) % 256]

\* video data of n bytes marked by tag
Video(tag, n) == [i \in 1..n |-> (tag * 16 + 3 * i) % 256]

CodecFailure == [success |-> FALSE, header |-> <<>>, video |-> <<>>]

\* a successful conversion: a 52-byte texture header and n bytes of video data
CodecSuccess(tag, n) == [success |-> TRUE, header |-> TexHeader(tag, 52), video |-> Video(tag, n)]

\* a conversion whose texture header is one byte short
CodecShortHeader == [success |-> TRUE, header |-> TexHeader(3, 51), video |-> Video(3, 1)]

\* what process_image_to_asset may return for the images offered for asset_type
CodecResults(asset_type) ==
    {CodecFailure, CodecSuccess(asset_type + 4, 2 + (asset_type % 3))}
    \cup (IF asset_type \in {4, 5} THEN {CodecSuccess(1, 100), CodecShortHeader} ELSE {})

\* the asset types the imports of the model use
ImportTypes == {Icon, Banner, Boxart, Slot, Background, 5, 6, 7, ScreenshotEnd}

(***************************************************************************)
(* The last call: op and impl name it, type is its asset_type, kind the     *)
(* path taken ("ok", "failed", "error", "absent", "image", "no_image"),    *)
(* ret the value returned ("True", "False", "None", "Image"; "-" if none), *)
(* raised whether an exception left the call, codec_ok and header_len what *)
(* the codec returned to import_image, codec the arguments extract_image   *)
(* handed to process_asset_to_image.                                       *)
(***************************************************************************)
NoCodecCall == [called |-> FALSE, texture_header |-> <<>>, video_data |-> <<>>]

\* no scan_folder or scan_root call yet
NoReport == [op |-> "none", valid |-> FALSE, count |-> 0, total |-> 0, log |-> <<>>,
             scanned |-> <<>>, visited |-> <<>>]

\* no extract_asset call yet
NoAttempts == [called |-> FALSE, name |-> <<>>, format |-> "", slots |-> <<>>, saved |-> {},
               printed |-> <<>>]

\* no should_process_asset call yet
NoDecision == [called |-> FALSE, overwrite |-> FALSE, verbose |-> FALSE, process |-> FALSE]

\* no scan_asset call yet; a call leaves the prefix of the file name, the pair
\* (ok, issues) it returns, flags, ss_count and the record sizes it read, and
\* the checks it went through
NoScan == [called |-> FALSE, prefix |-> "", ok |-> FALSE, issues |-> <<>>, flags |-> <<>>,
           ss_count |-> <<>>, sizes |-> <<>>, metas |-> <<>>, checks |-> {}]

Outcome(op, impl, type, kind, ret, raised, res, codec) ==
    [op |-> op, impl |-> impl, type |-> type, kind |-> kind, ret |-> ret, raised |-> raised,
     codec_ok |-> res.success, header_len |-> Len(res.header), codec |-> codec]

(***************************************************************************)
(* convert.py: AuroraAssetFile                                             *)
(***************************************************************************)
EmptyEntry == [offset |-> 0, size |-> 0, texture_header |-> Zeros(52), video_data |-> <<>>]

\* __init__: the 25 entries of a new container
EmptyEntries == [i \in 0..Max |-> EmptyEntry]

Populated(es) == {i \in DOMAIN es : Len(es[i].video_data) > 0}

\* _calculate_data_offset
calculate_data_offset(es) ==
    LET offset == HEADER_SIZE + Cardinality(DOMAIN es) * ENTRY_SIZE
    IN  offset + (ALIGNMENT - (offset % ALIGNMENT))

RECURSIVE MaxScreenshot(_, _, _)
\* the loop of _update_screenshot_count from slot i on, max_screenshot = m so far
MaxScreenshot(es, i, m) ==
    IF i > ScreenshotEnd THEN m
    ELSE MaxScreenshot(es, i + 1,
             IF Len(es[i].video_data) > 0 THEN Max2(m, i - ScreenshotStart + 1) ELSE m)

\* _update_screenshot_count: the new screenshot_count
update_screenshot_count(es) == MaxScreenshot(es, ScreenshotStart, 0)

\* mutant of ImportFlags: the flag is assigned where the source ORs it in
ImportFlags_Assign(f, asset_type) ==
    IF asset_type = Boxart THEN 4
    ELSE IF asset_type = Background THEN 16
    ELSE IF asset_type \in {Icon, Banner} THEN 1
    ELSE IF ScreenshotStart <= asset_type /\ asset_type <= ScreenshotEnd THEN 2 ^ asset_type
    ELSE f

\* import_image, the branch on asset_type that sets the flags
ImportFlags(f, asset_type) ==
    IF asset_type = Boxart THEN OrBit(f, 2)
    ELSE IF asset_type = Background THEN OrBit(f, 4)
    ELSE IF asset_type \in {Icon, Banner} THEN OrBit(f, 0)
    ELSE IF ScreenshotStart <= asset_type /\ asset_type <= ScreenshotEnd THEN OrBit(f, asset_type)
    ELSE f

IsScreenshot(asset_type) == ScreenshotStart <= asset_type /\ asset_type <= ScreenshotEnd

\* import_image: the count is recomputed from the entries as they are before the store
ImportCount(c, es, asset_type) ==
    IF IsScreenshot(asset_type) THEN update_screenshot_count(es) ELSE c

\* import_image: entries after the store of (header, video) at entry_idx
ImportStore(es, entry_idx, res) ==
    [es EXCEPT ![entry_idx].texture_header = res.header,
               ![entry_idx].video_data = res.video]

\* the model populates at most n slots of a container
CanImport(asset_type, n) ==
    \/ asset_type \in Populated(entries)
    \/ Cardinality(Populated(entries)) < n

\* import_image with the codec returning res
ImportImage(asset_type, res) ==
    /\ disk = <<>>
    /\ IF res.success
       THEN /\ flags' = ImportFlags(flags, asset_type)
            /\ screenshot_count' = ImportCount(screenshot_count, entries, asset_type)
            /\ entries' = ImportStore(entries, asset_type, res)
       ELSE UNCHANGED <<flags, screenshot_count, entries>>
    /\ last' = Outcome("import", "convert", asset_type,
                        IF res.success THEN "ok" ELSE "failed",
                        IF res.success THEN "True" ELSE "False", FALSE, res, NoCodecCall)
    /\ UNCHANGED <<disk, st_size, rd_flags, rd_screenshot_count, scan>>
    /\ UNCHANGED other_vars

RECURSIVE EntryTable(_, _)
\* save_asset: the entry records of slots i..Max
EntryTable(es, i) ==
    IF i > Max THEN <<>>
    ELSE PackLE(U32(0)) \o PackLE(U32(Len(es[i].video_data))) \o PackLE(U32(0))
         \o es[i].texture_header \o EntryTable(es, i + 1)

RECURSIVE VideoRegion(_, _)
\* save_asset: the video data of slots i..Max, empty ones skipped
VideoRegion(es, i) ==
    IF i > Max THEN <<>>
    ELSE es[i].video_data \o VideoRegion(es, i + 1)

RECURSIVE SumSizes(_, _)
\* sum(len(entry['video_data']) for entry in entries), slots i..Max
SumSizes(es, i) ==
    IF i > Max THEN 0 ELSE Len(es[i].video_data) + SumSizes(es, i + 1)

\* mutant of PaddingSize: the remainder itself is taken as the padding
PaddingSize_Remainder(current_pos) == current_pos % 2048

\* save_asset: the padding written at position current_pos
PaddingSize(current_pos) == 2048 - (current_pos % 2048)

\* save_asset: the bytes written for the container (f, c, es)
save_asset(f, c, es) ==
    LET data_size == SumSizes(es, 0)
        head == PackBE(U32(MAGIC)) \o PackLE(U32(VERSION)) \o PackLE(U32(data_size))
                \o PackLE(U32(f)) \o PackLE(U32(c))
        table == head \o EntryTable(es, 0)
    IN  table \o Zeros(PaddingSize(Len(table))) \o VideoRegion(es, 0)

\* save_asset(output_path): open(output_path, 'wb') replaces whatever file
\* is at the path
SaveAsset ==
    /\ disk' = save_asset(flags, screenshot_count, entries)
    /\ last' = Outcome("save", "convert", 0, "ok", "True", FALSE, CodecFailure, NoCodecCall)
    /\ st_size' = Len(disk')
    /\ UNCHANGED <<flags, screenshot_count, entries, rd_flags, rd_screenshot_count, scan>>
    /\ UNCHANGED other_vars

(***************************************************************************)
(* convert.py: write_asset_file, write_entry, create_texture_header        *)
(***************************************************************************)
\* the file written so far and the exception that ended the writing ("" for none)
NewFile == [data |-> <<>>, exc |-> ""]

\* file.write(b); nothing runs after an exception
Written(w, b) == IF w.exc # "" THEN w ELSE [w EXCEPT !.data = w.data \o b]

\* an exception of the kind exc leaves the function
Raised(w, exc) == IF w.exc # "" THEN w ELSE [w EXCEPT !.exc = exc]

\* file.write(struct.pack('<H', v)): struct.error outside 0..65535
WrittenH(w, v) ==
    IF v \in 0..65535 THEN Written(w, <<v % 256, v \div 256>>) ELSE Raised(w, "struct.error")

\* file.write(struct.pack(fmt, v)) of a u32 in the byte order of fmt:
\* struct.error for a negative v
WrittenI(w, v, little) ==
    IF v >= 0 THEN Written(w, IF little THEN PackLE(U32(v)) ELSE PackBE(U32(v)))
    ELSE Raised(w, "struct.error")

\* write_entry: the default of extended_info
DefaultExtendedInfo == 196609

\* write_entry(f, *entry): TypeError unless entry has 3 or 4 elements; 0x120,
\* width, height, extended_info and 52 zero bytes
write_entry(w, entry) ==
    IF Len(entry) < 3 \/ Len(entry) > 4 THEN Raised(w, "TypeError")
    ELSE LET extended_info == IF Len(entry) = 4 THEN entry[4] ELSE DefaultExtendedInfo
         IN  Written(WrittenI(WrittenH(WrittenH(WrittenI(w, 288, TRUE), entry[2]), entry[3]),
                              extended_info, FALSE),
                     Zeros(64 - 12))

\* create_texture_header(width, height, format_code) written to the file;
\* width and height are not used
create_texture_header(w, width, height, format_code) ==
    IF format_code < 0 THEN Raised(w, "struct.error")
    ELSE Written(w, PackLE(U32(3)) \o PackLE(U32(1)) \o Zeros(12)
                    \o <<255, 255, 0, 0>> \o <<255, 255, 0, 0>>
                    \o PackLE(U32(format_code)) \o PackLE(U32(84)) \o Zeros(4)
                    \o PackLE(U32(4109)) \o Zeros(4) \o PackLE(U32(10)))

RECURSIVE WriteEntries(_, _, _)
\* write_asset_file: the first loop, entries i..
WriteEntries(w, es, i) ==
    IF i > Len(es) \/ w.exc # "" THEN w
    ELSE WriteEntries(write_entry(w, es[i]), es, i + 1)

RECURSIVE WriteTextures(_, _, _)
\* write_asset_file: the second loop, entries i..: entry[3] and entry[4] of the
\* source are the fourth and the fifth element (IndexError when missing)
WriteTextures(w, es, i) ==
    IF i > Len(es) \/ w.exc # "" THEN w
    ELSE LET entry == es[i]
             w1 == IF Len(entry) < 4 THEN Raised(w, "IndexError")
                   ELSE create_texture_header(w, entry[2], entry[3], entry[4])
             w2 == IF Len(entry) < 5 THEN Raised(w1, "IndexError") ELSE Written(w1, entry[5])
         IN  WriteTextures(w2, es, i + 1)

\* write_asset_file(output_path, entries): 256 zero bytes, the entries, 192
\* zero bytes, the textures; what was written before an exception stays
write_asset_file(es) ==
    LET w1 == Written(NewFile, Zeros(256))
        w2 == WriteEntries(w1, es, 1)
        w3 == Written(w2, Zeros(2048 - 256 - 1600))
    IN  WriteTextures(w3, es, 1)

\* write_asset_file on the path; no exception is caught.  The function belongs
\* to no class, so the implementation the container is of stays as it is.
WriteAssetFile(es) ==
    /\ LET w == write_asset_file(es)
       IN  /\ disk' = w.data
           /\ last' = Outcome("write_asset_file", last.impl, 0,
                              IF w.exc = "" THEN "ok" ELSE w.exc,
                              IF w.exc = "" THEN "None" ELSE "-", w.exc # "",
                              CodecFailure, NoCodecCall)
    /\ st_size' = Len(disk')
    /\ UNCHANGED <<flags, screenshot_count, entries, rd_flags, rd_screenshot_count, scan>>
    /\ UNCHANGED other_vars

\* an entry tuple of n elements out of (entry_data, width, height,
\* extended_info, texture data)
EntryTuple(n, width) == SubSeq(<<<<84>>, width, 64, 196609, <<68, 65, 84, 65>>>>, 1, n)

\* the entries lists write_asset_file is called with: none, tuples of 2 to 5
\* elements, a width that does not fit 16 bits, a tuple of 3 before one of 5
EntryLists ==
    { <<>>, <<EntryTuple(2, 64)>>, <<EntryTuple(3, 64)>>, <<EntryTuple(4, 64)>>,
      <<EntryTuple(5, 64)>>, <<EntryTuple(4, 65536)>>,
      <<EntryTuple(3, 64), EntryTuple(5, 64)>>, <<EntryTuple(3, 64), EntryTuple(4, 64)>> }

(***************************************************************************)
(* Specification of building and writing a container with convert.py.      *)
(***************************************************************************)
Init ==
    /\ flags = 0
    /\ screenshot_count = 0
    /\ entries = EmptyEntries
    /\ disk = <<>>
    /\ st_size = 0
    /\ rd_flags = U32(0)
    /\ rd_screenshot_count = U32(0)
    /\ scan = NoScan
    /\ root = <<>>
    /\ report = NoReport
    /\ attempts = NoAttempts
    /\ decision = NoDecision
    /\ last = Outcome("init", "none", 0, "ok", "-", FALSE, CodecFailure, NoCodecCall)

Next ==
    \/ \E t \in ImportTypes : \E res \in CodecResults(t) :
          CanImport(t, MaxPopulated) /\ ImportImage(t, res)
    \/ SaveAsset
    \/ \E es \in EntryLists : WriteAssetFile(es)

Spec == Init /\ [][Next]_vars


(***************************************************************************)
(* aurora_converter/models/asset_file.py: AuroraAssetFile                  *)
(***************************************************************************)
\* import_image: self.flags = 0, then the one flag of asset_type is assigned
ModelsImportFlags(asset_type) ==
    IF asset_type = Boxart THEN 4
    ELSE IF asset_type = Background THEN 16
    ELSE IF asset_type \in {Icon, Banner} THEN 1
    ELSE IF IsScreenshot(asset_type) THEN 2 ^ asset_type
    ELSE 0

\* entry_idx has no value when no branch of import_image assigns it
Unbound == -1

\* import_image: entry_idx
ModelsEntryIdx(asset_type) ==
    IF asset_type = Boxart THEN 2
    ELSE IF asset_type = Background THEN 4
    ELSE IF asset_type \in {Icon, Banner} THEN (IF asset_type = Icon THEN 0 ELSE 1)
    ELSE IF IsScreenshot(asset_type) THEN asset_type
    ELSE Unbound

\* import_image: screenshot_count
ModelsImportCount(c, asset_type) ==
    IF IsScreenshot(asset_type) THEN Max2(c, asset_type - ScreenshotStart + 1) ELSE c

\* import_image: the target entry is replaced
ModelsImportStore(es, entry_idx, res) ==
    [es EXCEPT ![entry_idx] = [offset |-> 0, size |-> Len(res.video),
                               texture_header |-> res.header, video_data |-> res.video]]

\* mutant of ModelsImportImage: the flags are cleared before the codec's answer
\* is looked at
ModelsImportImage_ClearFirst(asset_type, res) ==
    /\ disk = <<>>
    /\ IF res.success
       THEN /\ flags' = ModelsImportFlags(asset_type)
            /\ screenshot_count' = ModelsImportCount(screenshot_count, asset_type)
            /\ IF ModelsEntryIdx(asset_type) = Unbound
               THEN /\ entries' = entries
                    /\ last' = Outcome("import", "models", asset_type, "error", "False",
                                       FALSE, res, NoCodecCall)
               ELSE /\ entries' = ModelsImportStore(entries, ModelsEntryIdx(asset_type), res)
                    /\ last' = Outcome("import", "models", asset_type, "ok", "True",
                                       FALSE, res, NoCodecCall)
       ELSE /\ flags' = 0
            /\ UNCHANGED <<screenshot_count, entries>>
            /\ last' = Outcome("import", "models", asset_type, "failed", "False",
                               FALSE, res, NoCodecCall)
    /\ UNCHANGED <<disk, st_size, rd_flags, rd_screenshot_count, scan>>
    /\ UNCHANGED other_vars

\* import_image with the codec returning res; the UnboundLocalError of an
\* asset_type without entry_idx is caught and False returned
ModelsImportImage(asset_type, res) ==
    /\ disk = <<>>
    /\ IF res.success
       THEN /\ flags' = ModelsImportFlags(asset_type)
            /\ screenshot_count' = ModelsImportCount(screenshot_count, asset_type)
            /\ IF ModelsEntryIdx(asset_type) = Unbound
               THEN /\ entries' = entries
                    /\ last' = Outcome("import", "models", asset_type, "error", "False",
                                       FALSE, res, NoCodecCall)
               ELSE /\ entries' = ModelsImportStore(entries, ModelsEntryIdx(asset_type), res)
                    /\ last' = Outcome("import", "models", asset_type, "ok", "True",
                                       FALSE, res, NoCodecCall)
       ELSE /\ UNCHANGED <<flags, screenshot_count, entries>>
            /\ last' = Outcome("import", "models", asset_type, "failed", "False",
                               FALSE, res, NoCodecCall)
    /\ UNCHANGED <<disk, st_size, rd_flags, rd_screenshot_count, scan>>
    /\ UNCHANGED other_vars

\* open(output_path, 'wb'): an empty file, position 0
OpenFile == [data |-> <<>>, pos |-> 0, closed |-> FALSE, raised |-> FALSE]

\* f.write(b); ValueError on a closed file; nothing runs after an exception
FileWrite(h, b) ==
    IF h.raised THEN h
    ELSE IF h.closed THEN [h EXCEPT !.raised = TRUE]
    ELSE [h EXCEPT !.data = Slice(h.data, 0, h.pos) \o b
                            \o Slice(h.data, h.pos + Len(b), Len(h.data)),
                   !.pos = h.pos + Len(b)]

\* f.seek(p)
FileSeek(h, p) ==
    IF h.raised THEN h
    ELSE IF h.closed THEN [h EXCEPT !.raised = TRUE]
    ELSE [h EXCEPT !.pos = p]

\* the end of the with block
FileClose(h) == [h EXCEPT !.closed = TRUE]

\* save_asset: the header, written inside the with block
ModelsWriteHeader(h, f, c) ==
    FileWrite(FileWrite(FileWrite(FileWrite(FileWrite(h,
        PackLE(swap_uint32(U32(MAGIC)))),
        PackLE(swap_uint32(U32(VERSION)))),
        PackLE(swap_uint32(U32(0)))),
        PackLE(swap_uint32(U32(f)))),
        PackLE(swap_uint32(U32(c))))

RECURSIVE ModelsWriteTable(_, _, _)
\* save_asset: the entry records of slots i..Max
ModelsWriteTable(h, es, i) ==
    IF i > Max \/ h.raised THEN h
    ELSE ModelsWriteTable(
             FileWrite(FileWrite(FileWrite(FileWrite(h,
                 PackLE(swap_uint32(U32(es[i].offset)))),
                 PackLE(swap_uint32(U32(es[i].size)))),
                 PackLE(swap_uint32(U32(0)))),
                 es[i].texture_header),
             es, i + 1)

RECURSIVE ModelsWriteVideo(_, _, _)
\* save_asset: the video data of slots i..Max
ModelsWriteVideo(h, es, i) ==
    IF i > Max \/ h.raised THEN h
    ELSE ModelsWriteVideo(IF Len(es[i].video_data) > 0 THEN FileWrite(h, es[i].video_data) ELSE h,
                          es, i + 1)

\* save_asset: the padding written at position current_pos
ModelsPaddingSize(current_pos) == (ALIGNMENT - (current_pos % ALIGNMENT)) % ALIGNMENT

\* save_asset: the file object when the function is left
models_save_asset(f, c, es) ==
    LET h1 == FileClose(ModelsWriteHeader(OpenFile, f, c))
        h2 == ModelsWriteTable(h1, es, 0)
        h3 == FileWrite(FileSeek(h2, 8), PackLE(swap_uint32(U32(SumSizes(es, 0)))))
        h4 == FileWrite(h3, Zeros(ModelsPaddingSize(h3.pos)))
    IN  ModelsWriteVideo(h4, es, 0)

\* save_asset: True, or False when an exception was caught; the bytes written
\* until then are in the file
ModelsSaveAsset ==
    /\ LET h == models_save_asset(flags, screenshot_count, entries)
       IN  /\ disk' = h.data
           /\ last' = Outcome("save", "models", 0, IF h.raised THEN "error" ELSE "ok",
                              IF h.raised THEN "False" ELSE "True", FALSE,
                              CodecFailure, NoCodecCall)
    /\ st_size' = Len(disk')
    /\ UNCHANGED <<flags, screenshot_count, entries, rd_flags, rd_screenshot_count, scan>>
    /\ UNCHANGED other_vars

NextModels ==
    \/ \E t \in ImportTypes : \E res \in CodecResults(t) :
          CanImport(t, MaxPopulated) /\ ModelsImportImage(t, res)
    \/ ModelsSaveAsset

SpecModels == Init /\ [][NextModels]_vars

\* a container of either implementation: the first call decides which class the
\* object is of
NextBoth ==
    \/ last.impl \in {"none", "convert"} /\ Next
    \/ last.impl \in {"none", "models"} /\ NextModels

SpecBoth == Init /\ [][NextBoth]_vars

(***************************************************************************)
(* extract_image (both implementations) and the files it is given.         *)
(***************************************************************************)
\* extract_image from the length check to the codec call.  decoded is what
\* process_asset_to_image answers.
ExtractParse(data, asset_type, decoded) ==
    IF Len(data) < ALIGNMENT
    THEN [kind |-> "error", parsed |-> FALSE, flags |-> U32(0), screenshot_count |-> U32(0),
          codec |-> NoCodecCall]
    ELSE
    LET magic == swap_uint32(UnpackLE(Slice(data, 0, 4)))
        version == swap_uint32(UnpackLE(Slice(data, 4, 8)))
        f == swap_uint32(UnpackLE(Slice(data, 12, 16)))
        c == swap_uint32(UnpackLE(Slice(data, 16, 20)))
        entry_offset == HEADER_SIZE + (asset_type * ENTRY_SIZE)
        offset == swap_uint32(UnpackLE(Slice(data, entry_offset, entry_offset + 4)))
        size == swap_uint32(UnpackLE(Slice(data, entry_offset + 4, entry_offset + 8)))
        texture_header == Slice(data, entry_offset + 12, entry_offset + 64)
        data_offset == calculate_data_offset(EmptyEntries) + SliceBound(offset)
        video_data == Slice(data, data_offset, data_offset + SliceBound(size))
    IN  IF magic # U32(MAGIC) \/ version # U32(VERSION)
        THEN [kind |-> "error", parsed |-> FALSE, flags |-> U32(0),
              screenshot_count |-> U32(0), codec |-> NoCodecCall]
        ELSE IF size = U32(0)
        THEN [kind |-> "absent", parsed |-> TRUE, flags |-> f, screenshot_count |-> c,
              codec |-> NoCodecCall]
        ELSE [kind |-> IF decoded THEN "image" ELSE "no_image", parsed |-> TRUE,
              flags |-> f, screenshot_count |-> c,
              codec |-> [called |-> TRUE, texture_header |-> texture_header,
                         video_data |-> video_data]]

\* extract_image reads nothing but the file (it assigns flags and
\* screenshot_count of its object and never reads them), so its calls are
\* independent: a behaviour follows one call on the file at the path
CanExtract == disk # <<>> /\ last.op \in {"save", "place", "write_asset_file"}

\* convert.py extract_image: every exception is caught and None returned
ExtractImage(asset_type, decoded) ==
    /\ CanExtract
    /\ LET r == ExtractParse(disk, asset_type, decoded)
       IN  /\ rd_flags' = IF r.parsed THEN r.flags ELSE rd_flags
           /\ rd_screenshot_count' = IF r.parsed THEN r.screenshot_count ELSE rd_screenshot_count
           /\ last' = Outcome("extract", "convert", asset_type, r.kind,
                              IF r.kind = "image" THEN "Image" ELSE "None", FALSE,
                              CodecFailure, r.codec)
    /\ UNCHANGED <<flags, screenshot_count, entries, disk, st_size, scan>>
    /\ UNCHANGED other_vars

\* asset_file.py extract_image: every exception is raised again as AssetError;
\* flags and screenshot_count of the object are not assigned
ModelsExtractImage(asset_type, decoded) ==
    /\ CanExtract
    /\ LET r == ExtractParse(disk, asset_type, decoded)
       IN  last' = Outcome("extract", "models", asset_type, r.kind,
                           IF r.kind = "error" THEN "-"
                           ELSE IF r.kind = "image" THEN "Image" ELSE "None",
                           r.kind = "error", CodecFailure, r.codec)
    /\ UNCHANGED <<flags, screenshot_count, entries, disk, st_size, rd_flags,
                   rd_screenshot_count, scan>>
    /\ UNCHANGED other_vars

\* an entry holding what the codec returned
EntryOf(res) == [offset |-> 0, size |-> Len(res.video), texture_header |-> res.header,
                 video_data |-> res.video]

RECURSIVE GivenTable(_, _)
\* the entry records of slots i..Max of a given file
GivenTable(es, i) ==
    IF i > Max THEN <<>>
    ELSE PackBE(U32(0)) \o PackBE(U32(Len(es[i].video_data))) \o PackBE(U32(0))
         \o es[i].texture_header \o GivenTable(es, i + 1)

\* a container file in the byte order extract_image reads (most significant
\* byte first), all offset fields 0
GivenFile(magic, version, f, c, es) ==
    LET table == PackBE(U32(magic)) \o PackBE(U32(version)) \o PackBE(U32(SumSizes(es, 0)))
                 \o PackBE(U32(f)) \o PackBE(U32(c)) \o GivenTable(es, 0)
    IN  table \o Zeros(ALIGNMENT - Len(table)) \o VideoRegion(es, 0)

\* Icon and Banner populated
GivenGL == [EmptyEntries EXCEPT ![0] = EntryOf(CodecSuccess(8, 2)),
                                ![1] = EntryOf(CodecSuccess(9, 3))]

\* screenshots 1, 2 and 4 populated
GivenSS == [EmptyEntries EXCEPT ![5] = EntryOf(CodecSuccess(10, 3)),
                                ![6] = EntryOf(CodecSuccess(11, 1)),
                                ![8] = EntryOf(CodecSuccess(12, 2))]

\* the files extract_image is given besides those save_asset wrote: two well-formed
\* ones, an empty container, a wrong magic, a wrong version, two files cut
\* before the alignment boundary and one cut inside the first payload
GivenFiles ==
    { GivenFile(MAGIC, VERSION, 1, 0, GivenGL),
      GivenFile(MAGIC, VERSION, 352, 4, GivenSS),
      GivenFile(MAGIC, VERSION, 0, 0, EmptyEntries),
      GivenFile(MAGIC + 1, VERSION, 1, 0, GivenGL),
      GivenFile(MAGIC, 2, 1, 0, GivenGL),
      Slice(GivenFile(MAGIC, VERSION, 1, 0, GivenGL), 0, ALIGNMENT - 1),
      Slice(GivenFile(MAGIC, VERSION, 1, 0, GivenGL), 0, HEADER_SIZE),
      Slice(GivenFile(MAGIC, VERSION, 1, 0, GivenGL), 0, ALIGNMENT + 1) }

\* a file from elsewhere is put at the path
PlaceFile(data) ==
    /\ disk = <<>>
    /\ last.op = "init"
    /\ disk' = data
    /\ last' = Outcome("place", "none", 0, "ok", "-", FALSE, CodecFailure, NoCodecCall)
    /\ st_size' = Len(disk')
    /\ UNCHANGED <<flags, screenshot_count, entries, rd_flags, rd_screenshot_count, scan>>
    /\ UNCHANGED other_vars

\* the asset types imported into a container that is written and read back
RoundTripTypes == {Icon, Background, 5, 6}

NextExtract ==
    \/ \E t \in RoundTripTypes : \E res \in CodecResults(t) :
          CanImport(t, MaxRoundTrip) /\ ImportImage(t, res)
    \/ SaveAsset
    \/ \E data \in GivenFiles : PlaceFile(data)
    \/ \E es \in EntryLists : WriteAssetFile(es)
    \/ \E t \in AssetType, decoded \in BOOLEAN : ExtractImage(t, decoded)
    \/ \E t \in AssetType, decoded \in BOOLEAN : ModelsExtractImage(t, decoded)

SpecExtract == Init /\ [][NextExtract]_vars

(***************************************************************************)
(* scanner.py: AssetScanner                                                *)
(***************************************************************************)
\* the tolerance 0.01 of the size window, in hundredths
SIZE_TOLERANCE == 1

SIZE_THRESHOLDS == [BK |-> 983040, GC |-> 655360, GL |-> 83968, SS |-> 3276800]

\* mutant of EXPECTED_ENTRIES: one entry expected in every file
EXPECTED_ENTRIES_OneEach == [BK |-> 1, GC |-> 1, GL |-> 1, SS |-> 1]

EXPECTED_ENTRIES == [BK |-> 1, GC |-> 1, GL |-> 2, SS |-> 5]

ASSET_PATTERNS ==
    (<<0, 89, 228, 255>> :> "Background") @@ (<<0, 74, 227, 131>> :> "Boxart")
    @@ (<<0, 7, 224, 63>> :> "Icon") @@ (<<0, 11, 225, 163>> :> "Banner")
    @@ (<<0, 70, 35, 231>> :> "Screenshot")

EXPECTED_TYPES ==
    (<<"GL", 0>> :> "Icon") @@ (<<"GL", 1>> :> "Banner")
    @@ (<<"GC", 2>> :> "Boxart") @@ (<<"BK", 4>> :> "Background")

\* _swap32
swap32(val) == UnpackBE(PackLE(val))

\* one entry of the issues list: the message and the numbers formatted into it
Issue(msg, detail) == [msg |-> msg, detail |-> detail]

\* mutant of validate_metadata: a slot without an expected kind passes
validate_metadata_Lenient(prefix, idx, meta) ==
    LET expected == IF <<prefix, idx>> \in DOMAIN EXPECTED_TYPES THEN EXPECTED_TYPES[<<prefix, idx>>]
                    ELSE IF prefix = "SS" /\ 5 <= idx /\ idx <= 9 THEN "Screenshot"
                    ELSE "None"
        kind == IF meta \in DOMAIN ASSET_PATTERNS THEN ASSET_PATTERNS[meta] ELSE ""
    IN  kind = expected \/ expected = "None"

\* _validate_metadata; "None" stands for the absent expected kind and "" for an
\* unknown pattern
validate_metadata(prefix, idx, meta) ==
    LET expected == IF <<prefix, idx>> \in DOMAIN EXPECTED_TYPES THEN EXPECTED_TYPES[<<prefix, idx>>]
                    ELSE IF prefix = "SS" /\ 5 <= idx /\ idx <= 9 THEN "Screenshot"
                    ELSE "None"
        kind == IF meta \in DOMAIN ASSET_PATTERNS THEN ASSET_PATTERNS[meta] ELSE ""
    IN  kind = expected

\* mutant of validate_size: the ends of the window are left out
validate_size_Strict(size, prefix) ==
    LET target == SIZE_THRESHOLDS[prefix]
    IN  /\ target * (100 - SIZE_TOLERANCE) < 100 * size
        /\ 100 * size < target * (100 + SIZE_TOLERANCE)

\* _validate_size: target * (1 - 0.01) <= size <= target * (1 + 0.01).  For the
\* four targets and integer sizes the float comparison agrees with the exact one.
validate_size(size, prefix) ==
    LET target == SIZE_THRESHOLDS[prefix]
    IN  /\ target * (100 - SIZE_TOLERANCE) <= 100 * size
        /\ 100 * size <= target * (100 + SIZE_TOLERANCE)

\* mutant of MetaOf: the last 4 bytes of the record are taken
MetaOf_Tail(entry) == Slice(entry, 60, 64)

\* scan_asset: meta = entry[48:52]
MetaOf(entry) == Slice(entry, 48, 52)

\* the locals of the loop of scan_asset before the first record
NoEntries == [entry_count |-> 0, issues |-> <<>>, sizes |-> <<>>, metas |-> <<>>]

RECURSIVE ScanEntries(_, _, _, _)
\* scan_asset: the loop over the records idx..Max, read from position 20 on; it
\* stops at the first record that is not complete.  sizes collects the size read
\* from every record, metas the pair (idx, meta) of every populated one.
ScanEntries(prefix, data, idx, acc) ==
    IF idx > Max THEN acc
    ELSE LET entry == Slice(data, HEADER_SIZE + idx * ENTRY_SIZE,
                            HEADER_SIZE + (idx + 1) * ENTRY_SIZE)
             size == swap32(UnpackLE(Slice(entry, 4, 8)))
             meta == MetaOf(entry)
         IN  IF Len(entry) < ENTRY_SIZE THEN acc
             ELSE ScanEntries(prefix, data, idx + 1,
                    IF size # U32(0)
                    THEN [entry_count |-> acc.entry_count + 1,
                          issues |-> IF validate_metadata(prefix, idx, meta) THEN acc.issues
                                     ELSE Append(acc.issues,
                                                 Issue("Invalid metadata", <<idx>> \o meta)),
                          sizes |-> Append(acc.sizes, size),
                          metas |-> Append(acc.metas, <<idx, meta>>)]
                    ELSE [acc EXCEPT !.sizes = Append(acc.sizes, size)])

\* mutant of ReadError: the issues collected so far are dropped
ReadError_Reset(issues) == <<Issue("Read error", <<>>)>>

\* scan_asset: except Exception as e: issues.append(f"Read error: {str(e)}")
ReadError(issues) == Append(issues, Issue("Read error", <<>>))

\* mutant of MagicMatches: the bytes are compared without the swap
MagicMatches_NoSwap(data) == UnpackLE(Slice(data, 0, 4)) = U32(MAGIC)

\* scan_asset: self._swap32(struct.unpack('<I', f.read(4))[0]) == self.MAGIC
MagicMatches(data) == swap32(UnpackLE(Slice(data, 0, 4))) = U32(MAGIC)

\* what a scan_asset call leaves
ScanResult(prefix, issues, f, c, r, checks) ==
    [called |-> TRUE, prefix |-> prefix, ok |-> Len(issues) = 0, issues |-> issues,
     flags |-> f, ss_count |-> c, sizes |-> r.sizes, metas |-> r.metas, checks |-> checks]

\* scan_asset on the file data of length size whose name starts with prefix.
\* struct.unpack of a short read and the KeyError of an unknown prefix are
\* caught and appended as a "Read error" issue.
scan_asset(prefix, data, size) ==
    IF Len(Slice(data, 0, 4)) < 4
    THEN ScanResult(prefix, ReadError(<<>>), <<>>, <<>>, NoEntries, {})
    ELSE IF ~MagicMatches(data)
    THEN [ScanResult(prefix, <<Issue("Invalid magic", <<>>)>>, <<>>, <<>>, NoEntries, {"magic"})
          EXCEPT !.ok = FALSE]
    ELSE IF Len(Slice(data, 12, 20)) < 8
    THEN ScanResult(prefix, ReadError(<<>>), <<>>, <<>>, NoEntries, {"magic"})
    ELSE
    LET f == swap32(UnpackLE(Slice(data, 12, 16)))
        c == swap32(UnpackLE(Slice(data, 16, 20)))
        r == ScanEntries(prefix, data, 0, NoEntries)
    IN  IF prefix \notin DOMAIN EXPECTED_ENTRIES
        THEN ScanResult(prefix, ReadError(r.issues), f, c, r,
                        {"magic", "entries"})
        ELSE ScanResult(prefix,
                 r.issues
                 \o (IF r.entry_count # EXPECTED_ENTRIES[prefix]
                     THEN <<Issue("Expected entries", <<EXPECTED_ENTRIES[prefix], r.entry_count>>)>>
                     ELSE <<>>)
                 \o (IF ~validate_size(size, prefix)
                     THEN <<Issue("Size mismatch", <<>>)>> ELSE <<>>),
                 f, c, r, {"magic", "entries", "count", "size"})

\* scan_asset(path): the file at the path under a name that starts with prefix
ScanAsset(prefix) ==
    /\ disk # <<>>
    /\ last.op \in {"save", "place", "write_asset_file"}
    /\ scan' = scan_asset(prefix, disk, st_size)
    /\ last' = Outcome("scan", "scanner", 0, IF scan'.ok THEN "ok" ELSE "issues",
                       IF scan'.ok THEN "True" ELSE "False", FALSE, CodecFailure, NoCodecCall)
    /\ UNCHANGED <<flags, screenshot_count, entries, disk, st_size, rd_flags, rd_screenshot_count>>
    /\ UNCHANGED other_vars

\* the signature the pattern table holds for a kind, and one it does not hold
SigOf(kind) == CHOOSE m \in DOMAIN ASSET_PATTERNS : ASSET_PATTERNS[m] = kind

UnknownSig == <<1, 2, 3, 4>>

\* a 52-byte texture header with sig at its bytes 36..39 (record offset 48) and
\* tail as its last 4 bytes (record offset 60)
ScanHeader(tag, sig, tail) ==
    [i \in 1..52 |-> IF i \in 37..40 THEN sig[i - 36]
                     ELSE IF i \in 49..52 THEN tail[i - 48]
                     ELSE TexHeader(tag, 52)[i]]

\* the populated slots of a file to scan: slot :> the two signatures of its header
Slots(idxs, sig, tail) == [k \in idxs |-> [sig |-> sig, tail |-> tail]]

RECURSIVE ScanTable(_, _, _)
\* the records of slots i..Max of a file of size bytes with the populated slots
\* layout: the payload of the lowest populated slot takes what the others, of
\* one byte each, leave
ScanTable(layout, size, i) ==
    IF i > Max THEN <<>>
    ELSE (IF i \in DOMAIN layout
          THEN PackBE(U32(0))
               \o PackBE(U32(IF \A k \in DOMAIN layout : i <= k
                            THEN size - ALIGNMENT - (Cardinality(DOMAIN layout) - 1)
                            ELSE 1))
               \o PackBE(U32(0)) \o ScanHeader(i, layout[i].sig, layout[i].tail)
          ELSE Zeros(ENTRY_SIZE))
         \o ScanTable(layout, size, i + 1)

\* a file of size bytes as scan_asset reads it, magic being the four bytes it
\* starts with: data holds the bytes up to the
\* alignment boundary (scan_asset reads none behind the entry table), size is
\* the length of the whole file
ScanFile(magic, f, c, layout, size) ==
    LET table == PackBE(magic) \o PackBE(U32(VERSION))
                 \o PackBE(U32(IF layout = <<>> THEN 0 ELSE size - ALIGNMENT))
                 \o PackBE(U32(f)) \o PackBE(U32(c)) \o ScanTable(layout, size, 0)
    IN  [data |-> table \o Zeros(ALIGNMENT - Len(table)), size |-> size]

\* a file cut after n bytes
CutFile(file, n) == [data |-> Slice(file.data, 0, n), size |-> n]

\* the populated slots of the files scanned, with flags and screenshot count
ScanLayouts ==
    { [f |-> 1, c |-> 0, slots |-> Slots({0}, SigOf("Icon"), UnknownSig)
                                   @@ Slots({1}, SigOf("Banner"), UnknownSig)],
      [f |-> 1, c |-> 0, slots |-> Slots({0}, UnknownSig, SigOf("Icon"))
                                   @@ Slots({1}, SigOf("Banner"), SigOf("Banner"))],
      [f |-> 1, c |-> 0, slots |-> Slots({0}, SigOf("Banner"), SigOf("Icon"))
                                   @@ Slots({1}, SigOf("Icon"), SigOf("Banner"))],
      [f |-> 1, c |-> 0, slots |-> Slots({0}, SigOf("Icon"), SigOf("Icon"))],
      [f |-> 5, c |-> 0, slots |-> Slots({0}, SigOf("Icon"), UnknownSig)
                                   @@ Slots({1}, SigOf("Banner"), UnknownSig)
                                   @@ Slots({2}, SigOf("Boxart"), UnknownSig)],
      [f |-> 4, c |-> 0, slots |-> Slots({2}, SigOf("Boxart"), UnknownSig)],
      [f |-> 16, c |-> 0, slots |-> Slots({4}, SigOf("Background"), UnknownSig)],
      [f |-> 16, c |-> 0, slots |-> Slots({4}, SigOf("Boxart"), SigOf("Background"))],
      [f |-> 992, c |-> 5, slots |-> Slots(5..9, SigOf("Screenshot"), UnknownSig)],
      [f |-> 2016, c |-> 6, slots |-> Slots(5..10, SigOf("Screenshot"), UnknownSig)],
      [f |-> 0, c |-> 0, slots |-> <<>>] }

\* the least and the greatest integer size inside the window of a target
WindowLow(target) == (target * (100 - SIZE_TOLERANCE) + 99) \div 100

WindowHigh(target) == (target * (100 + SIZE_TOLERANCE)) \div 100

\* the sizes of the files scanned: around both ends of each window, and the target
ScanSizes ==
    UNION { {WindowLow(SIZE_THRESHOLDS[p]) - 1, WindowLow(SIZE_THRESHOLDS[p]),
             SIZE_THRESHOLDS[p],
             WindowHigh(SIZE_THRESHOLDS[p]), WindowHigh(SIZE_THRESHOLDS[p]) + 1}
            : p \in DOMAIN SIZE_THRESHOLDS }

\* the files scan_asset is given besides those save_asset wrote: every layout in
\* every size, files with a wrong magic (one with the magic bytes reversed),
\* and files cut inside the header and the entry table
ScanFiles ==
    { ScanFile(U32(MAGIC), l.f, l.c, l.slots, n) : l \in ScanLayouts, n \in ScanSizes }
    \cup { ScanFile(magic, l.f, l.c, l.slots, n) :
             magic \in {U32(MAGIC + 1), PackLE(U32(MAGIC))},
             l \in {x \in ScanLayouts : x.f \in {1, 5}}, n \in ScanSizes }
    \cup { CutFile(ScanFile(U32(MAGIC), 1, 0, Slots({0, 1}, SigOf("Icon"), UnknownSig),
                            SIZE_THRESHOLDS["GL"]), n) : n \in {2, 10, 20, 94} }

\* a file from elsewhere is put at the path
PlaceScanFile(file) ==
    /\ disk = <<>>
    /\ last.op = "init"
    /\ disk' = file.data
    /\ st_size' = file.size
    /\ last' = Outcome("place", "none", 0, "ok", "-", FALSE, CodecFailure, NoCodecCall)
    /\ UNCHANGED <<flags, screenshot_count, entries, rd_flags, rd_screenshot_count, scan>>
    /\ UNCHANGED other_vars

\* scan_asset(path) when path.open raises (no file at the path, or a directory):
\* the exception is caught before anything is read
ScanUnreadable(prefix) ==
    /\ disk = <<>>
    /\ last.op = "init"
    /\ scan' = ScanResult(prefix, ReadError(<<>>), <<>>, <<>>, NoEntries, {})
    /\ last' = Outcome("scan", "scanner", 0, "issues", "False", FALSE, CodecFailure, NoCodecCall)
    /\ UNCHANGED <<flags, screenshot_count, entries, disk, st_size, rd_flags, rd_screenshot_count>>
    /\ UNCHANGED other_vars

\* the first two letters of the names of the files scanned
Prefixes == {"BK", "GC", "GL", "SS", "XX"}

NextScan ==
    \/ \E t \in RoundTripTypes : \E res \in CodecResults(t) :
          CanImport(t, MaxRoundTrip) /\ ImportImage(t, res)
    \/ SaveAsset
    \/ \E file \in ScanFiles : PlaceScanFile(file)
    \/ \E es \in EntryLists : WriteAssetFile(es)
    \/ \E prefix \in Prefixes : ScanAsset(prefix)
    \/ \E prefix \in Prefixes : ScanUnreadable(prefix)

SpecScan == Init /\ [][NextScan]_vars

(***************************************************************************)
(* scanner.py: scan_folder and scan_root.  A folder is the list of what     *)
(* path.rglob("*.asset") yields for it, in that order: entries of the       *)
(* folder itself and of the directories below it.                           *)
(***************************************************************************)
\* an entry named prefix + suffix; nested when it lies in a directory below the
\* folder; file is what scan_asset finds at its path
Asset(prefix, suffix, nested, file) ==
    [prefix |-> prefix, suffix |-> suffix, nested |-> nested, file |-> file]

\* an entry that cannot be opened (a directory named *.asset)
Unreadable == [data |-> <<>>, size |-> 0]

\* scan_asset(asset)
ScanOne(asset) == scan_asset(asset.prefix, asset.file.data, asset.file.size)

\* self._log(msg, status): one line of the log, status "FAIL", "OK" or ""
LogLine(status, msg) == [status |-> status, msg |-> msg]

\* mutant of CountWrong: only too few files are refused
CountWrong_Fewer(assets) == Len(assets) < 4

\* scan_folder: len(assets) != 4
CountWrong(assets) == Len(assets) # 4

\* mutant of NamesDiffer: two different names are let through
NamesDiffer_MoreThanTwo(assets) == Cardinality({assets[i].suffix : i \in 1..Len(assets)}) > 2

\* scan_folder: basenames = {a.name[2:] for a in assets}; len(basenames) > 1
NamesDiffer(assets) == Cardinality({assets[i].suffix : i \in 1..Len(assets)}) > 1

RECURSIVE ScanAssets_StopAtFailure(_, _, _)
\* mutant of ScanAssets: the loop is left at the first file that fails
ScanAssets_StopAtFailure(assets, i, acc) ==
    IF i > Len(assets) \/ ~acc.valid THEN acc
    ELSE LET r == ScanOne(assets[i])
         IN  ScanAssets_StopAtFailure(assets, i + 1,
                 [valid |-> acc.valid /\ r.ok,
                  log |-> Append(acc.log, LogLine(IF r.ok THEN "OK" ELSE "FAIL", "asset"))
                          \o [j \in 1..Len(r.issues) |-> LogLine("FAIL", r.issues[j].msg)],
                  scanned |-> Append(acc.scanned, i)])

RECURSIVE ScanAssets(_, _, _)
\* scan_folder: the loop over the assets i..: scan_asset, a log line with the
\* status, valid &= ok, a FAIL line per issue.  scanned collects the entries
\* scan_asset was called on.
ScanAssets(assets, i, acc) ==
    IF i > Len(assets) THEN acc
    ELSE LET r == ScanOne(assets[i])
         IN  ScanAssets(assets, i + 1,
                 [valid |-> acc.valid /\ r.ok,
                  log |-> Append(acc.log, LogLine(IF r.ok THEN "OK" ELSE "FAIL", "asset"))
                          \o [j \in 1..Len(r.issues) |-> LogLine("FAIL", r.issues[j].msg)],
                  scanned |-> Append(acc.scanned, i)])

\* scan_folder(path): the value returned, the log lines and the entries scanned
scan_folder(assets) ==
    LET start == <<LogLine("", "Scanning")>>
    IN  IF CountWrong(assets)
        THEN [valid |-> FALSE, log |-> Append(start, LogLine("FAIL", "Invalid asset count")),
              scanned |-> <<>>]
        ELSE IF NamesDiffer(assets)
        THEN [valid |-> FALSE, log |-> Append(start, LogLine("FAIL", "Name mismatch")),
              scanned |-> <<>>]
        ELSE ScanAssets(assets, 1, [valid |-> TRUE, log |-> start, scanned |-> <<>>])

RECURSIVE VisitFolders(_, _, _)
\* scan_root: valid = sum(self.scan_folder(f) for f in folders), folders i..
VisitFolders(folders, i, acc) ==
    IF i > Len(folders) THEN acc
    ELSE LET r == scan_folder(folders[i])
         IN  VisitFolders(folders, i + 1,
                 [count |-> acc.count + (IF r.valid THEN 1 ELSE 0),
                  log |-> acc.log \o r.log,
                  visited |-> Append(acc.visited, [folder |-> i, valid |-> r.valid,
                                                   scanned |-> r.scanned])])

\* scan_root(root) on an existing root: folders is the list of its immediate
\* subdirectories in the order iterdir yields them
scan_root(folders) ==
    LET r == VisitFolders(folders, 1, [count |-> 0, log |-> <<>>, visited |-> <<>>])
    IN  [op |-> "scan_root", valid |-> FALSE, count |-> r.count, total |-> Len(folders),
         log |-> r.log, scanned |-> <<>>, visited |-> r.visited]

\* scan_folder on the i-th subdirectory of the tree
ScanFolder(i) ==
    /\ report.op = "none"
    /\ i \in 1..Len(root)
    /\ LET r == scan_folder(root[i])
       IN  report' = [op |-> "scan_folder", valid |-> r.valid, count |-> 0, total |-> 0,
                      log |-> r.log, scanned |-> r.scanned,
                      visited |-> <<[folder |-> i, valid |-> r.valid, scanned |-> r.scanned]>>]
    /\ last' = Outcome("scan_folder", "scanner", 0, "ok",
                       IF report'.valid THEN "True" ELSE "False", FALSE, CodecFailure, NoCodecCall)
    /\ UNCHANGED <<flags, screenshot_count, entries, disk, st_size, rd_flags, rd_screenshot_count,
                   scan, root, attempts, decision>>

\* scan_root on the tree
ScanRoot ==
    /\ report.op = "none"
    /\ root # <<>>
    /\ report' = scan_root(root)
    /\ last' = Outcome("scan_root", "scanner", 0, "ok", "None", FALSE, CodecFailure, NoCodecCall)
    /\ UNCHANGED <<flags, screenshot_count, entries, disk, st_size, rd_flags, rd_screenshot_count,
                   scan, root, attempts, decision>>

\* a file of the kind of prefix that passes scan_asset
GoodFile(prefix) ==
    IF prefix = "GL"
    THEN ScanFile(U32(MAGIC), 1, 0, Slots({0}, SigOf("Icon"), UnknownSig)
                                    @@ Slots({1}, SigOf("Banner"), UnknownSig), SIZE_THRESHOLDS.GL)
    ELSE IF prefix = "GC"
    THEN ScanFile(U32(MAGIC), 4, 0, Slots({2}, SigOf("Boxart"), UnknownSig), SIZE_THRESHOLDS.GC)
    ELSE IF prefix = "BK"
    THEN ScanFile(U32(MAGIC), 16, 0, Slots({4}, SigOf("Background"), UnknownSig), SIZE_THRESHOLDS.BK)
    ELSE ScanFile(U32(MAGIC), 992, 5, Slots(5..9, SigOf("Screenshot"), UnknownSig), SIZE_THRESHOLDS.SS)

\* a file of the kind of prefix that fails scan_asset: an unknown signature, a
\* size below the window, a wrong magic, a sixth screenshot
BadFile(prefix) ==
    IF prefix = "GL"
    THEN ScanFile(U32(MAGIC), 1, 0, Slots({0}, UnknownSig, SigOf("Icon"))
                                    @@ Slots({1}, SigOf("Banner"), UnknownSig), SIZE_THRESHOLDS.GL)
    ELSE IF prefix = "GC"
    THEN ScanFile(U32(MAGIC), 4, 0, Slots({2}, SigOf("Boxart"), UnknownSig),
                  WindowLow(SIZE_THRESHOLDS.GC) - 1)
    ELSE IF prefix = "BK"
    THEN ScanFile(U32(MAGIC + 1), 16, 0, Slots({4}, SigOf("Background"), UnknownSig),
                  SIZE_THRESHOLDS.BK)
    ELSE ScanFile(U32(MAGIC), 2016, 6, Slots(5..10, SigOf("Screenshot"), UnknownSig),
                  SIZE_THRESHOLDS.SS)

\* the four files of a title in a folder; bad is the set of prefixes whose file
\* fails scan_asset
Title(bad) ==
    [i \in 1..4 |-> LET prefix == <<"BK", "GC", "GL", "SS">>[i]
                    IN  Asset(prefix, "A", FALSE,
                              IF prefix \in bad THEN BadFile(prefix) ELSE GoodFile(prefix))]

\* the folders scanned: the four files with every choice of failing ones; for
\* two of these, a folder with one file less, one with a fifth file in a nested
\* directory, one with the fourth file in a nested directory, one with a file
\* of another title, one with an entry that cannot be opened
ScanFolders ==
    { Title(bad) : bad \in SUBSET {"BK", "GC", "GL", "SS"} }
    \cup UNION { { SubSeq(Title(bad), 1, 3),
                   Append(Title(bad), Asset("GL", "A", TRUE, GoodFile("GL"))),
                   [Title(bad) EXCEPT ![4].nested = TRUE],
                   [Title(bad) EXCEPT ![4].suffix = "B"],
                   [Title(bad) EXCEPT ![2].file = Unreadable] }
                 : bad \in {{}, {"BK"}} }

\* the folders the trees of several folders are made of
RootFolders ==
    { Title({}), Title({"GL"}), SubSeq(Title({}), 1, 3), [Title({}) EXCEPT ![4].suffix = "B"],
      [Title({}) EXCEPT ![4].nested = TRUE] }

\* the sequences of n different elements of S
RECURSIVE Arrangements(_, _)
Arrangements(S, n) ==
    IF n = 0 THEN {<<>>}
    ELSE UNION { { Append(a, x) : x \in {y \in S : \A j \in 1..Len(a) : a[j] # y} }
                 : a \in Arrangements(S, n - 1) }

\* the trees scanned: one folder, or up to MaxFolders of RootFolders in every order
ScanTrees ==
    { <<f>> : f \in ScanFolders }
    \cup UNION { Arrangements(RootFolders, n) : n \in 2..MaxFolders }

\* a tree of folders is put under the root path
PlaceTree(folders) ==
    /\ root = <<>>
    /\ last.op = "init"
    /\ root' = folders
    /\ last' = Outcome("place", "none", 0, "ok", "-", FALSE, CodecFailure, NoCodecCall)
    /\ UNCHANGED <<flags, screenshot_count, entries, disk, st_size, rd_flags, rd_screenshot_count,
                   scan, report, attempts, decision>>

NextFolder ==
    \/ \E folders \in ScanTrees : PlaceTree(folders)
    \/ \E i \in 1..MaxFolders : ScanFolder(i)
    \/ ScanRoot

SpecFolder == Init /\ [][NextFolder]_vars

(***************************************************************************)
(* convert.py: extract_asset                                               *)
(***************************************************************************)
\* '.asset' as the characters of a file name
DotAsset == <<".", "a", "s", "s", "e", "t">>

\* base_name.endswith(suffix)
EndsWith(s, suffix) ==
    Len(s) >= Len(suffix) /\ SubSeq(s, Len(s) - Len(suffix) + 1, Len(s)) = suffix

\* output_format.lower() for the formats passed
lower(s) == IF s = "PNG" THEN "png" ELSE IF s = "WebP" THEN "webp" ELSE s

\* what extract_asset has done so far: the slots extract_image was called
\* with, in order, the slots whose image was saved and the lines printed
NoneYet == [slots |-> <<>>, saved |-> {}, printed |-> <<>>]

\* one asset.extract_image(asset_path, asset_type) and what follows it: the
\* image is saved, or "Failed to extract" is printed.  fails is the set of
\* slots for which process_asset_to_image reports failure.
ExtractOne(data, asset_type, fails, acc) ==
    LET r == ExtractParse(data, asset_type, asset_type \notin fails)
    IN  IF r.kind = "image"
        THEN [slots |-> Append(acc.slots, asset_type), saved |-> acc.saved \cup {asset_type},
              printed |-> Append(acc.printed, "Extracted")]
        ELSE [slots |-> Append(acc.slots, asset_type), saved |-> acc.saved,
              printed |-> Append(acc.printed, "Failed to extract")]

RECURSIVE ExtractScreenshots(_, _, _, _)
\* the loop over range(ScreenshotStart, ScreenshotEnd + 1) from slot i on: the
\* image is saved, or the loop is left at the first slot without an image
ExtractScreenshots(data, i, fails, acc) ==
    IF i > ScreenshotEnd THEN acc
    ELSE LET r == ExtractParse(data, i, i \notin fails)
         IN  IF r.kind = "image"
             THEN ExtractScreenshots(data, i + 1, fails,
                      [slots |-> Append(acc.slots, i), saved |-> acc.saved \cup {i},
                       printed |-> Append(acc.printed, "Extracted")])
             ELSE [slots |-> Append(acc.slots, i), saved |-> acc.saved, printed |-> acc.printed]

\* extract_asset(asset_path, output_format) on the file data at a path whose
\* base name is name
extract_asset(name, output_format, data, fails) ==
    LET prefix == Slice(name, 0, 2)
    IN  IF lower(output_format) \notin {"png", "webp"}
        THEN [NoneYet EXCEPT !.printed = <<"Unsupported output format">>]
        ELSE IF Len(name) < 12 \/ ~EndsWith(name, DotAsset)
        THEN [NoneYet EXCEPT !.printed = <<"Invalid asset filename">>]
        ELSE IF prefix = <<"B", "K">> THEN ExtractOne(data, Background, fails, NoneYet)
        ELSE IF prefix = <<"G", "C">> THEN ExtractOne(data, Boxart, fails, NoneYet)
        ELSE IF prefix = <<"G", "L">>
        THEN ExtractOne(data, Icon, fails, ExtractOne(data, Banner, fails, NoneYet))
        ELSE IF prefix = <<"S", "S">> THEN ExtractScreenshots(data, ScreenshotStart, fails, NoneYet)
        ELSE [NoneYet EXCEPT !.printed = <<"Unknown asset prefix">>]

\* extract_asset on the file at the path.  The AuroraAssetFile it reads with is
\* its own, so the container of the model is left alone.
ExtractAsset(name, output_format, fails) ==
    /\ disk # <<>>
    /\ last.op \in {"place", "write_asset_file"}
    /\ LET r == extract_asset(name, output_format, disk, fails)
       IN  attempts' = [called |-> TRUE, name |-> name, format |-> output_format,
                        slots |-> r.slots, saved |-> r.saved, printed |-> r.printed]
    /\ last' = Outcome("extract_asset", "convert", 0, "ok", "None", FALSE, CodecFailure,
                       NoCodecCall)
    /\ UNCHANGED <<flags, screenshot_count, entries, disk, st_size, rd_flags, rd_screenshot_count,
                   scan, root, report, decision>>

\* the base name prefix + title + '.asset'
AssetName(prefix, title) == prefix \o title \o DotAsset

\* the base names extract_asset is called with: the four kinds and an unknown
\* one with a title id of four characters, a name of 11 characters, one that
\* does not end in '.asset'
AssetNames ==
    { AssetName(p, <<"0", "0", "0", "1">>)
        : p \in {<<"B", "K">>, <<"G", "C">>, <<"G", "L">>, <<"S", "S">>, <<"X", "X">>} }
    \cup { AssetName(<<"S", "S">>, <<"0", "0", "1">>),
           <<"S", "S">> \o <<"0", "0", "0", "1">> \o <<".", "a", "s", "s", "e", "t", "s">> }

\* the output formats asked for
OutputFormats == {"png", "PNG", "webp", "bmp"}

\* screenshots 1, 2 and 3 populated
GivenSS3 == [EmptyEntries EXCEPT ![5] = EntryOf(CodecSuccess(10, 3)),
                                 ![6] = EntryOf(CodecSuccess(11, 1)),
                                 ![7] = EntryOf(CodecSuccess(12, 2))]

\* Boxart and Background populated
GivenCovers == [EmptyEntries EXCEPT ![2] = EntryOf(CodecSuccess(13, 2)),
                                    ![4] = EntryOf(CodecSuccess(14, 3))]

\* the files extract_asset is given
AssetFiles ==
    GivenFiles \cup { GivenFile(MAGIC, VERSION, 224, 3, GivenSS3),
                      GivenFile(MAGIC, VERSION, 20, 0, GivenCovers) }

\* the sets of slots the codec fails to decode
FailSets == {{}, {Icon}, {Banner}, {Background}, {ScreenshotStart}, {ScreenshotStart + 1}}

NextAsset ==
    \/ \E data \in AssetFiles : PlaceFile(data)
    \/ \E es \in EntryLists : WriteAssetFile(es)
    \/ \E name \in AssetNames, output_format \in OutputFormats, fails \in FailSets :
          ExtractAsset(name, output_format, fails)

SpecAsset == Init /\ [][NextAsset]_vars

(***************************************************************************)
(* convert.py: process_folder, should_process_asset                        *)
(***************************************************************************)
\* the size below which an existing output file is taken for a broken one
SmallFile == 10240

\* should_process_asset(prefix): exists and size are os.path.exists and
\* os.path.getsize of the output path of prefix
should_process_asset(overwrite, verbose, exists, size) ==
    IF ~overwrite /\ exists
    THEN IF size < SmallFile /\ verbose THEN TRUE ELSE FALSE
    ELSE TRUE

\* should_process_asset for the output path of the model, the file on disk
ShouldProcessAsset(overwrite, verbose) ==
    /\ ~decision.called
    /\ last.op \in {"init", "save", "place", "write_asset_file"}
    /\ decision' = [called |-> TRUE, overwrite |-> overwrite, verbose |-> verbose,
                    process |-> should_process_asset(overwrite, verbose, disk # <<>>, st_size)]
    /\ last' = Outcome("should_process", "convert", 0, "ok",
                       IF decision'.process THEN "True" ELSE "False", FALSE, CodecFailure,
                       NoCodecCall)
    /\ UNCHANGED <<flags, screenshot_count, entries, disk, st_size, rd_flags, rd_screenshot_count,
                   scan, root, report, attempts>>

\* the sizes of the output files found from an earlier run: a bare container,
\* sizes around SmallFile, a boxart file of the expected size
OutputSizes == {ALIGNMENT, SmallFile - 1, SmallFile, SmallFile + 1, SIZE_THRESHOLDS.GC}

\* the output files found from an earlier run
OutputFiles ==
    { ScanFile(U32(MAGIC), 4, 0, Slots({2}, SigOf("Boxart"), UnknownSig), size)
        : size \in OutputSizes }

NextProcess ==
    \/ \E t \in RoundTripTypes : \E res \in CodecResults(t) :
          CanImport(t, MaxRoundTrip) /\ ImportImage(t, res)
    \/ SaveAsset
    \/ \E file \in OutputFiles : PlaceScanFile(file)
    \/ \E es \in EntryLists : WriteAssetFile(es)
    \/ \E overwrite \in BOOLEAN, verbose \in BOOLEAN : ShouldProcessAsset(overwrite, verbose)

SpecProcess == Init /\ [][NextProcess]_vars

(***************************************************************************)
(* Properties.  Helpers of the properties are defined from the format and  *)
(* not from the operators above.                                           *)
(***************************************************************************)
\* highest screenshot ordinal (slot - 5 + 1) among populated screenshot slots, 0 if none
HighestOrdinal(es) ==
    LET ords == {i - 5 + 1 : i \in {j \in 5..24 : Len(es[j].video_data) > 0}}
    IN  IF ords = {} THEN 0 ELSE CHOOSE m \in ords : \A x \in ords : x <= m

\* the flag bit n a container with populated slots P is to have
ExpectedBit(n, P) ==
    CASE n = 0 -> (0 \in P \/ 1 \in P)
      [] n = 2 -> 2 \in P
      [] n = 4 -> 4 \in P
      [] n \in 5..24 -> n \in P
      [] OTHER -> FALSE

AllHeaders52(es) == \A i \in DOMAIN es : Len(es[i].texture_header) = 52

RECURSIVE PayloadsUpTo(_, _)
\* the video data of slots 0..k in ascending slot order
PayloadsUpTo(es, k) ==
    IF k < 0 THEN <<>> ELSE PayloadsUpTo(es, k - 1) \o es[k].video_data

SavedByConvert == last.op = "save" /\ last.impl = "convert"

\* C3: after every successful import_image of convert.py, screenshot_count is the
\* highest ordinal among the populated screenshot slots (0 if none).
C3_CountIsHighestOrdinal ==
    (last.op = "import" /\ last.impl = "convert" /\ last.ret = "True")
        => screenshot_count = HighestOrdinal(entries)

\* C4: in convert.py's container, bit 0 of flags is set iff Icon or Banner is
\* populated, bit 2 iff Boxart, bit 4 iff Background, bit N iff screenshot slot N,
\* and no other bit is set.
C4_FlagsMatchPopulated ==
    \A n \in 0..30 : BitSet(flags, n) <=> ExpectedBit(n, Populated(entries))

C4_Witness ==
    /\ last.op = "import" /\ last.impl = "convert" /\ last.ret = "True"
    /\ Populated(entries) = {Banner, Slot, ScreenshotEnd}
    /\ flags = 1 + 2 ^ 24

\* C6: with 52-byte texture headers, the file written by convert.py's save_asset
\* has zero padding up to 2048 = _calculate_data_offset(), the payloads from there
\* on, and length 2048 + the payload lengths; slot 4 alone with 100 bytes gives
\* 2148 bytes, flags 0x10 and screenshotCount 0.
C6_PayloadAligned ==
    (SavedByConvert /\ AllHeaders52(entries)) =>
        LET start == calculate_data_offset(entries)
            payload == PayloadsUpTo(entries, 24)
        IN  /\ start = 2048
            /\ start % 2048 = 0
            /\ Len(disk) = start + Len(payload)
            /\ Slice(disk, start, Len(disk)) = payload
            /\ Slice(disk, 20 + 25 * 64, start) = Zeros(start - (20 + 25 * 64))
            /\ (Populated(entries) = {4} /\ Len(entries[4].video_data) = 100)
                   => /\ Len(disk) = 2148
                      /\ flags = 16 /\ UnpackLE(Slice(disk, 12, 16)) = U32(16)
                      /\ screenshot_count = 0 /\ UnpackLE(Slice(disk, 16, 20)) = U32(0)

C6_Witness ==
    /\ SavedByConvert
    /\ Populated(entries) = {4}
    /\ Len(entries[4].video_data) = 100
    /\ Len(disk) = 2148

\* C7: in the file written by save_asset the payload region is the video data of
\* the populated slots in ascending slot order, and the record of slot k at byte
\* 20 + 64*k carries offset 0, the length of slot k's video data, extendedInfo 0
\* and slot k's texture header.
C7_PayloadAndRecords ==
    SavedByConvert =>
        /\ Slice(disk, 2048, Len(disk)) = PayloadsUpTo(entries, 24)
        /\ \A k \in 0..24 :
              Slice(disk, 20 + 64 * k, 20 + 64 * k + 64)
                  = PackLE(U32(0)) \o PackLE(U32(Len(entries[k].video_data)))
                    \o PackLE(U32(0)) \o entries[k].texture_header

\* C9: storing an entry whose texture header is not 52 bytes long fails and
\* leaves the container unchanged, so every record save_asset writes has 64 bytes.
C9_ShortHeaderRejected ==
    [][ /\ (last'.op = "import" /\ last'.impl = "convert" /\ last'.codec_ok
               /\ last'.header_len # 52)
           => (last'.raised /\ UNCHANGED <<flags, screenshot_count, entries>>)
        /\ (last'.op = "save" /\ last'.impl = "convert")
           => Len(disk') >= 20 + 25 * 64 /\ AllHeaders52(entries) ]_vars

\* the size field of the record of slot k, read most significant byte first
RecordSize(data, k) == SliceBound(UnpackBE(Slice(data, 20 + 64 * k + 4, 20 + 64 * k + 8)))

RECURSIVE SizesBelow(_, _)
\* the sum of the size fields of the records of the slots below k
SizesBelow(data, k) == IF k = 0 THEN 0 ELSE SizesBelow(data, k - 1) + RecordSize(data, k - 1)

AllOffsetsZero(data) == \A k \in 0..24 : Slice(data, 20 + 64 * k, 20 + 64 * k + 4) = <<0, 0, 0, 0>>

\* too short, or not the magic bytes 52 58 45 41, or not version 1
Malformed(data) ==
    \/ Len(data) < 2048
    \/ Slice(data, 0, 4) # <<82, 88, 69, 65>>
    \/ Slice(data, 4, 8) # <<0, 0, 0, 1>>

\* the flag bit that stands for slot k
FlagBitOf(k) == IF k \in {0, 1} THEN 0 ELSE k

\* a u32 field of a written file, in the byte order its save_asset writes
WrittenField(impl, data, pos) ==
    IF impl = "convert" THEN UnpackLE(Slice(data, pos, pos + 4))
    ELSE UnpackBE(Slice(data, pos, pos + 4))

RECURSIVE WrittenSizes(_, _, _)
\* the sum of the size fields of the records of slots 0..k of a written file
WrittenSizes(impl, data, k) ==
    IF k < 0 THEN 0
    ELSE WrittenSizes(impl, data, k - 1) + SliceBound(WrittenField(impl, data, 20 + 64 * k + 4))

\* C1: a container populated by successful imports (52-byte headers), written by
\* convert.py's save_asset and read by its extract_image, passes the checks; the
\* codec is handed the stored header and video data of a populated slot, flags
\* and screenshot_count are read back as written, an empty slot yields absent.
C1_RoundTrip ==
    (/\ last.op = "extract" /\ last.impl = "convert"
     /\ AllHeaders52(entries)
     /\ disk = save_asset(flags, screenshot_count, entries))
    => /\ last.kind # "error"
       /\ rd_flags = U32(flags)
       /\ rd_screenshot_count = U32(screenshot_count)
       /\ IF last.type \in Populated(entries)
          THEN last.codec = [called |-> TRUE,
                             texture_header |-> entries[last.type].texture_header,
                             video_data |-> entries[last.type].video_data]
          ELSE last.kind = "absent"

\* C2: extract_image takes the payload of slot k from byte 2048 + the sizes of the
\* records below k, not from the offset field: in a file with all offset fields 0
\* and two or more populated slots the codec is handed the slot's own payload.
C2_PayloadLocatedBySizes ==
    (/\ last.op = "extract" /\ last.codec.called
     /\ AllOffsetsZero(disk)
     /\ Cardinality({k \in 0..24 : RecordSize(disk, k) > 0}) >= 2)
    => last.codec.video_data
           = Slice(disk, 2048 + SizesBelow(disk, last.type),
                   2048 + SizesBelow(disk, last.type) + RecordSize(disk, last.type))

\* C5: in asset_file.py's container the flag bit of every populated slot is set
\* (importing slots 5, 6, 7 leaves bits 5, 6, 7 set and screenshot_count 3).
C5_FlagsCoverPopulated ==
    /\ \A k \in Populated(entries) : BitSet(flags, FlagBitOf(k))
    /\ Populated(entries) = {5, 6, 7} => screenshot_count = 3

\* C8: in every file written by save_asset the dataSize field equals the sum of
\* the size fields of the 25 records, which equals the number of payload bytes
\* after the alignment boundary.
C8_DataSizeIsSumOfSizes ==
    last.op = "save" =>
        /\ Len(disk) >= 2048
        /\ SliceBound(WrittenField(last.impl, disk, 8)) = WrittenSizes(last.impl, disk, 24)
        /\ Len(disk) - 2048 = WrittenSizes(last.impl, disk, 24)

\* C10: extract_image on a buffer shorter than 2048 bytes, or with a wrong magic
\* or version, ends in an error the caller can tell from the result for an empty
\* slot (None returned, nothing raised), without a codec call; any other input
\* decodes without error.
C10_ErrorsDistinguishable ==
    last.op = "extract" =>
        IF Malformed(disk)
        THEN /\ last.kind = "error"
             /\ ~last.codec.called
             /\ (last.raised \/ last.ret # "None")
        ELSE last.kind # "error" /\ ~last.raised

\* C11: extract_image on a file that passes the header checks but ends before the
\* end of the requested populated slot's payload (byte 2048 + the sizes of the
\* lower records + its own size) fails with an error and does not call the codec;
\* the codec is never handed fewer bytes of video data than the record's size.
C11_TruncatedRejected ==
    (/\ last.op = "extract"
     /\ ~Malformed(disk)
     /\ RecordSize(disk, last.type) > 0)
    => /\ Len(disk) < 2048 + SizesBelow(disk, last.type) + RecordSize(disk, last.type)
          => last.kind = "error" /\ ~last.codec.called
       /\ last.codec.called => Len(last.codec.video_data) = RecordSize(disk, last.type)

\* C12: an import_image call (either implementation) in which the codec reports
\* failure leaves flags, screenshot_count and all 25 entries as they were.
C12_CodecFailureFrame ==
    [][ (last'.op = "import" /\ ~last'.codec_ok)
        => (flags' = flags /\ screenshot_count' = screenshot_count /\ entries' = entries) ]_vars

\* a failed import into an asset_file.py container that holds earlier imports
C12_Witness ==
    /\ last.op = "import" /\ last.impl = "models" /\ ~last.codec_ok
    /\ flags # 0
    /\ Cardinality(Populated(entries)) >= 2

\* the five header fields of a written container, all stored most significant
\* byte first or all stored least significant byte first
InOneOrder(data, f, c, es) ==
    LET vals == <<U32(MAGIC), U32(VERSION), U32(SumSizes(es, 0)), U32(f), U32(c)>>
    IN  \/ \A i \in 1..5 : Slice(data, 4 * (i - 1), 4 * i) = PackBE(vals[i])
        \/ \A i \in 1..5 : Slice(data, 4 * (i - 1), 4 * i) = PackLE(vals[i])

\* C13: save_asset writes all u32 fields in one byte order and the readers read
\* them in that order: scan_asset of a file written by convert.py's save_asset
\* for a container with populated slots reads flags, screenshotCount and the 25
\* size fields with the values written.
C13_OneByteOrder ==
    (/\ last.op = "scan"
     /\ Populated(entries) # {} /\ AllHeaders52(entries)
     /\ disk = save_asset(flags, screenshot_count, entries))
    => /\ InOneOrder(disk, flags, screenshot_count, entries)
       /\ scan.flags = U32(flags)
       /\ scan.ss_count = U32(screenshot_count)
       /\ scan.sizes = [k \in 1..25 |-> U32(Len(entries[k - 1].video_data))]

\* a file that holds the 20-byte header, 25 records of 64 bytes, the padding up
\* to byte 2048 and the video data of the entries
CompleteContainer(data, es) ==
    /\ Len(data) = 2048 + Len(VideoRegion(es, 0))
    /\ Slice(data, 2048, Len(data)) = VideoRegion(es, 0)
    /\ \A k \in 0..24 : Slice(data, 20 + 64 * k + 12, 20 + 64 * k + 64) = es[k].texture_header

\* C14: when save_asset fails, the output path (empty before the call) holds no
\* partially written container: it is as before or holds a complete container.
C14_NoPartialFile ==
    (last.op = "save" /\ last.ret = "False")
    => (disk = <<>> \/ CompleteContainer(disk, entries))

\* C15: save_asset of asset_file.py returns True for every container, no write
\* or seek hits a closed file, and the file holds header, 25 records, the
\* patched dataSize, padding and payloads.
C15_ModelsSaveTotal ==
    (last.op = "save" /\ last.impl = "models")
    => /\ last.ret = "True"
       /\ last.kind # "error"
       /\ CompleteContainer(disk, entries)
       /\ SliceBound(WrittenField("models", disk, 8)) = Len(VideoRegion(entries, 0))

\* the records of a scanned file that are complete and have a size field other
\* than 0
ScanPopulated(data) ==
    {k \in 0..24 : /\ Len(data) >= 20 + 64 * (k + 1)
                   /\ Slice(data, 20 + 64 * k + 4, 20 + 64 * k + 8) # <<0, 0, 0, 0>>}

\* the scanned file holds the magic bytes and the whole 20-byte header: scan_asset
\* gets to the entry records
HeaderRead == Len(disk) >= 20 /\ Slice(disk, 0, 4) = <<82, 88, 69, 65>>

\* the file name starts with one of the four prefixes the tables are keyed by
KnownPrefix == scan.prefix \in {"BK", "GC", "GL", "SS"}

\* the positions in the issues list of the issues with message msg
IssuesWith(msg) == {i \in 1..Len(scan.issues) : scan.issues[i].msg = msg}

\* C16 as stated: the signature scan_asset takes for a populated record is the
\* record's last 4 bytes, offset 60..63.
C16_SignatureAtOffset60 ==
    (last.op = "scan" /\ HeaderRead)
    => \A i \in 1..Len(scan.metas) :
          scan.metas[i][2] = Slice(disk, 20 + 64 * scan.metas[i][1] + 60,
                                   20 + 64 * scan.metas[i][1] + 64)

\* C16 amended: scan_asset takes a signature for exactly the populated records,
\* and it is the 4 bytes at record offset 48..51 (bytes 36..39 of the 52-byte
\* texture header).
C16_SignatureAtOffset48 ==
    (last.op = "scan" /\ HeaderRead)
    => /\ {scan.metas[i][1] : i \in 1..Len(scan.metas)} = ScanPopulated(disk)
       /\ \A i \in 1..Len(scan.metas) :
             scan.metas[i][2] = Slice(disk, 20 + 64 * scan.metas[i][1] + 48,
                                      20 + 64 * scan.metas[i][1] + 52)

\* a GL file passes with Icon and Banner signatures at offset 48 while its last
\* 4 bytes hold no known pattern
C16_Witness ==
    /\ last.op = "scan" /\ scan.prefix = "GL" /\ scan.ok
    /\ Len(scan.metas) = 2
    /\ Slice(disk, 20 + 60, 20 + 64) \notin DOMAIN ASSET_PATTERNS

\* the kind expected in slot k of a file whose name starts with prefix; "None"
\* when the pairing has none
KindExpected(prefix, k) ==
    IF prefix = "GL" /\ k = 0 THEN "Icon"
    ELSE IF prefix = "GL" /\ k = 1 THEN "Banner"
    ELSE IF prefix = "GC" /\ k = 2 THEN "Boxart"
    ELSE IF prefix = "BK" /\ k = 4 THEN "Background"
    ELSE IF prefix = "SS" /\ k \in 5..9 THEN "Screenshot"
    ELSE "None"

\* the format signature of the record of slot k
Signature(data, k) == Slice(data, 20 + 64 * k + 48, 20 + 64 * k + 52)

\* the signature is not in the pattern table, or its kind is not the expected one
BadSignature(prefix, k, sig) ==
    \/ sig \notin DOMAIN ASSET_PATTERNS
    \/ ASSET_PATTERNS[sig] # KindExpected(prefix, k)

\* the size lies in the window of 99% to 101% of target, both ends included
InWindow(size, target) == 99 * target <= 100 * size /\ 100 * size <= 101 * target

\* Scenario C: a GL file of a fitting size with exactly Icon and Banner populated
\* and the Banner signature in place, whose slot-0 signature is not Icon's
ScenarioC ==
    /\ scan.prefix = "GL"
    /\ Slice(disk, 0, 4) = <<82, 88, 69, 65>>
    /\ ScanPopulated(disk) = {0, 1}
    /\ Signature(disk, 0) # <<0, 7, 224, 63>>
    /\ Signature(disk, 1) = <<0, 11, 225, 163>>
    /\ InWindow(st_size, 83968)

\* C17: on a file whose header it can read, scan_asset appends exactly one
\* "Invalid metadata" issue for a populated slot iff its signature is unknown or
\* of another kind than expected for (prefix, slot), none for any other slot,
\* and goes on with the next records; in Scenario C the issues are exactly that
\* one issue for slot 0, result false.
C17_MetadataIssues ==
    (last.op = "scan" /\ HeaderRead)
    => /\ \A k \in 0..24 :
             Cardinality({i \in IssuesWith("Invalid metadata") : scan.issues[i].detail[1] = k})
             = IF k \in ScanPopulated(disk) /\ BadSignature(scan.prefix, k, Signature(disk, k))
               THEN 1 ELSE 0
       /\ \A i \in IssuesWith("Invalid metadata") :
             scan.issues[i].detail = <<scan.issues[i].detail[1]>>
                                     \o Signature(disk, scan.issues[i].detail[1])
       /\ ScenarioC => /\ ~scan.ok
                       /\ scan.issues = <<Issue("Invalid metadata", <<0>> \o Signature(disk, 0))>>

\* Scenario C has been scanned
C17_Witness == last.op = "scan" /\ ScenarioC /\ Len(scan.issues) = 1

\* C18: when the magic scan_asset read is not 52 58 45 41, the result is
\* (False, ["Invalid magic"]) and no entry, count or size check was made.
C18_InvalidMagicOnly ==
    (last.op = "scan" /\ Len(disk) >= 4 /\ Slice(disk, 0, 4) # <<82, 88, 69, 65>>)
    => /\ ~scan.ok
       /\ scan.issues = <<Issue("Invalid magic", <<>>)>>
       /\ scan.checks \cap {"entries", "count", "size"} = {}
       /\ scan.metas = <<>> /\ scan.sizes = <<>>

\* a GL file with the magic bytes reversed, three populated slots and a size
\* outside the window has been scanned
C18_Witness ==
    /\ last.op = "scan" /\ scan.prefix = "GL"
    /\ Slice(disk, 0, 4) = <<65, 69, 88, 82>>
    /\ Cardinality(ScanPopulated(disk)) = 3
    /\ ~InWindow(st_size, 83968)
    /\ scan.issues = <<Issue("Invalid magic", <<>>)>>

\* the expected number of populated records of a file by its prefix
CountExpected == [BK |-> 1, GC |-> 1, GL |-> 2, SS |-> 5]

\* C19: on a file whose header it can read and whose prefix is one of the four,
\* scan_asset appends a count issue iff the number of records with size > 0
\* among the 25 slots differs from the count expected for the prefix; the issue
\* names the expected and the found number.
C19_CountIssue ==
    (last.op = "scan" /\ HeaderRead /\ KnownPrefix)
    => /\ Cardinality(IssuesWith("Expected entries")) =
             IF Cardinality(ScanPopulated(disk)) # CountExpected[scan.prefix] THEN 1 ELSE 0
       /\ \A i \in IssuesWith("Expected entries") :
             scan.issues[i].detail = <<CountExpected[scan.prefix], Cardinality(ScanPopulated(disk))>>

\* an SS file with screenshots in slots 5..10 has been scanned: 5 expected, 6 found
C19_Witness ==
    /\ last.op = "scan" /\ scan.prefix = "SS"
    /\ ScanPopulated(disk) = 5..10
    /\ \E i \in 1..Len(scan.issues) : scan.issues[i] = Issue("Expected entries", <<5, 6>>)

\* the target size of a file by its prefix
SizeTarget == [BK |-> 983040, GC |-> 655360, GL |-> 83968, SS |-> 3276800]

\* C20: on a file whose header it can read and whose prefix is one of the four,
\* scan_asset appends a "Size mismatch" issue iff the file size lies outside
\* [99% of target, 101% of target] for the prefix; a size on either end passes.
C20_SizeWindow ==
    (last.op = "scan" /\ HeaderRead /\ KnownPrefix)
    => Cardinality(IssuesWith("Size mismatch")) =
          IF InWindow(st_size, SizeTarget[scan.prefix]) THEN 0 ELSE 1

\* an SS file of exactly 99% of the target (3244032 bytes) has been scanned and
\* its size accepted
C20_Witness ==
    /\ last.op = "scan" /\ scan.prefix = "SS" /\ HeaderRead
    /\ 100 * st_size = 99 * 3276800
    /\ IssuesWith("Size mismatch") = {}

\* the file cannot be opened, ends inside the magic or the header, or has a name
\* that starts with none of the four prefixes
ReadFails ==
    \/ disk = <<>>
    \/ Len(disk) < 4
    \/ Slice(disk, 0, 4) = <<82, 88, 69, 65>> /\ Len(disk) < 20
    \/ HeaderRead /\ ~KnownPrefix

\* C21: no exception leaves scan_asset; the flag it returns is true iff the
\* issues list is empty; a file that cannot be opened, that is shorter than 4 or
\* 20 bytes or whose prefix is unknown ends in a "Read error" issue behind the
\* issues collected until then (one per populated record read before).
C21_ReadErrorsCaptured ==
    last.op = "scan"
    => /\ ~last.raised
       /\ scan.ok <=> scan.issues = <<>>
       /\ last.ret = (IF scan.issues = <<>> THEN "True" ELSE "False")
       /\ ReadFails
          => /\ scan.issues # <<>>
             /\ scan.issues[Len(scan.issues)] = Issue("Read error", <<>>)
             /\ Len(scan.issues) = 1 + (IF HeaderRead
                                         THEN Cardinality({k \in ScanPopulated(disk) :
                                                  BadSignature(scan.prefix, k, Signature(disk, k))})
                                         ELSE 0)

\* a file named XX... with three populated records has been scanned: three
\* metadata issues, then the read error
C21_Witness ==
    /\ last.op = "scan" /\ scan.prefix = "XX" /\ HeaderRead
    /\ Len(scan.issues) = 4
    /\ scan.issues[4].msg = "Read error"

\* the folder the report of scan_folder is about
Scanned == root[report.visited[1].folder]

\* the folder holds exactly four .asset files
FourAssets(f) == Len(f) = 4

\* the names of the files of the folder are the same behind the first two characters
SameNames(f) == \A i, j \in 1..Len(f) : f[i].suffix = f[j].suffix

\* every file of the folder passes scan_asset
AllPass(f) == \A i \in 1..Len(f) : ScanOne(f[i]).ok

\* the FAIL lines of the report that are not the status line of a file
FailLines == {i \in 1..Len(report.log) : report.log[i].status = "FAIL"
                                          /\ report.log[i].msg # "asset"}

\* C22: scan_folder returns true iff the folder holds exactly four .asset
\* files (those in nested directories included), their names are the same
\* behind the first two characters, and each of them passes scan_asset.
C22_FolderValidIff ==
    report.op = "scan_folder"
    => (report.valid <=> FourAssets(Scanned) /\ SameNames(Scanned) /\ AllPass(Scanned))

\* scan_folder has returned true for a folder
C22_Witness ==
    /\ report.op = "scan_folder" /\ report.valid
    /\ FourAssets(Scanned) /\ last.ret = "True"

\* C23: on a folder whose number of .asset files is not four, or whose names
\* differ behind the prefix, scan_folder logs exactly one issue, 'Invalid asset
\* count' or 'Name mismatch', returns false and calls scan_asset on no file.
C23_PreconditionFailure ==
    report.op = "scan_folder" /\ (~FourAssets(Scanned) \/ ~SameNames(Scanned))
    => /\ ~report.valid
       /\ report.scanned = <<>>
       /\ Cardinality(FailLines) = 1
       /\ \A i \in FailLines :
              report.log[i].msg = (IF ~FourAssets(Scanned) THEN "Invalid asset count"
                                   ELSE "Name mismatch")

\* scan_folder has refused a folder of four files, one of another title
C23_Witness ==
    /\ report.op = "scan_folder" /\ FourAssets(Scanned) /\ ~SameNames(Scanned)
    /\ \E i \in FailLines : report.log[i].msg = "Name mismatch"

\* the folders of the tree that scan_folder accepts
ValidFolders == {i \in 1..Len(root) : FourAssets(root[i]) /\ SameNames(root[i])
                                      /\ AllPass(root[i])}

\* C24: once the two preconditions hold, scan_folder calls scan_asset on each
\* of the four files, whatever the earlier ones returned; scan_root calls
\* scan_folder on every subdirectory, and the count it reports is the number of
\* folders for which scan_folder returned true, in whatever order they come.
C24_NoShortCircuit ==
    /\ report.op = "scan_folder" /\ FourAssets(Scanned) /\ SameNames(Scanned)
       => report.scanned = <<1, 2, 3, 4>>
    /\ report.op = "scan_root"
       => /\ report.total = Len(root)
          /\ Len(report.visited) = Len(root)
          /\ {report.visited[i].folder : i \in 1..Len(root)} = 1..Len(root)
          /\ report.count = Cardinality(ValidFolders)
          /\ \A i \in 1..Len(root) :
                 LET v == report.visited[i]
                 IN  /\ v.valid <=> v.folder \in ValidFolders
                     /\ FourAssets(root[v.folder]) /\ SameNames(root[v.folder])
                        => v.scanned = <<1, 2, 3, 4>>

\* scan_root has gone over a tree whose first folder fails at one of its files
\* and whose later folder is valid
C24_Witness ==
    /\ report.op = "scan_root" /\ Len(root) >= 2
    /\ ~report.visited[1].valid /\ report.visited[1].scanned = <<1, 2, 3, 4>>
    /\ report.count >= 1 /\ report.count < report.total

\* C25: an import_image call of aurora_converter/models/asset_file.py that
\* returns False, whatever the reason (a codec failure, or a codec success for
\* an asset type without a slot such as the reserved slot 3), leaves flags,
\* screenshot_count and all 25 entries as they were before the call.
C25_FalseLeavesState ==
    [][ (last'.op = "import" /\ last'.impl = "models" /\ last'.ret = "False")
        => (flags' = flags /\ screenshot_count' = screenshot_count /\ entries' = entries) ]_vars

\* C26: in a file named SS..., a populated record at any of the screenshot
\* slots 5..24 whose signature is the Screenshot pattern gets no "Invalid
\* metadata" issue from scan_asset.
C26_EveryScreenshotSlot ==
    (last.op = "scan" /\ scan.prefix = "SS" /\ HeaderRead)
    => \A k \in ScanPopulated(disk) \cap (ScreenshotStart..ScreenshotEnd) :
          (/\ Signature(disk, k) \in DOMAIN ASSET_PATTERNS
           /\ ASSET_PATTERNS[Signature(disk, k)] = "Screenshot")
          => \A i \in IssuesWith("Invalid metadata") : scan.issues[i].detail[1] # k

\* the characters of the base name before the title id
NamePrefix == Slice(attempts.name, 0, 2)

\* C27: extract_asset on an SS file calls extract_image for every populated
\* screenshot slot 5..24, also behind a screenshot slot that is empty or whose
\* decoding failed.
C27_EveryPopulatedScreenshot ==
    (/\ attempts.called /\ NamePrefix = <<"S", "S">>
     /\ attempts.printed \notin {<<"Unsupported output format">>, <<"Invalid asset filename">>}
     /\ ~Malformed(disk))
    => \A k \in ScreenshotStart..ScreenshotEnd :
          RecordSize(disk, k) > 0 => \E i \in 1..Len(attempts.slots) : attempts.slots[i] = k

\* C28: should_process_asset answers without regard to verbose: with overwrite
\* off and an output file of at least 10240 bytes the asset is skipped; in every
\* other case (overwrite on, no output file, or an output file of less than
\* 10240 bytes) it is processed.
C28_VerboseIndependent ==
    decision.called
    => (decision.process <=> ~(~decision.overwrite /\ disk # <<>> /\ st_size >= 10240))

=============================================================================
